---- MODULE Spec2Model ----
(***************************************************************************)
(* Hotel reservation system: request parsing, day classification, cost     *)
(* calculation and cheapest-hotel selection of                             *)
(* src/src/hotel_reservation/system.py and models.py.                      *)
(*                                                                         *)
(* A Python str is modelled as a sequence of one-character strings, a      *)
(* datetime as a record [year, month, day], an Enum member by its member   *)
(* name, a raised exception as a record with raised = TRUE.                *)
(***************************************************************************)
EXTENDS Integers, Sequences, FiniteSets, TLC

VARIABLES hotels, pc, op, arg, ret, cost_calls, history, frames

vars == <<hotels, pc, op, arg, ret, cost_calls, history, frames>>

(***************************************************************************)
(* Bounds of the model.                                                    *)
(***************************************************************************)
\* longest date list drawn for a generated request or a direct cost call
MaxDates == 2

\* longest catalog drawn when the catalog is an input
MaxHotels == 3

\* number of earlier calls a caller keeps the outcomes of
MaxCalls == 2

\* number of callers whose calls are interleaved
MaxCallers == 2

(***************************************************************************)
(* str methods used by parse_input.                                        *)
(***************************************************************************)
IsSpace(c) == c = " "

RECURSIVE LStrip(_)
LStrip(s) == IF s # <<>> /\ IsSpace(Head(s)) THEN LStrip(Tail(s)) ELSE s

RECURSIVE RStrip(_)
RStrip(s) ==
    IF s # <<>> /\ IsSpace(s[Len(s)]) THEN RStrip(SubSeq(s, 1, Len(s) - 1)) ELSE s

\* str.strip()
Strip(s) == RStrip(LStrip(s))

\* str.find(c): index of the first occurrence of c in s, 0 when there is none
Find(s, c) ==
    IF \E i \in 1..Len(s) : s[i] = c
    THEN CHOOSE i \in 1..Len(s) : s[i] = c /\ \A j \in 1..(i - 1) : s[j] # c
    ELSE 0

\* str.split(c): every piece between occurrences of c, empty pieces included
RECURSIVE Split(_, _)
SplitAt(s, c, i) ==
    IF i = 0 THEN <<s>>
    ELSE <<SubSeq(s, 1, i - 1)>> \o Split(SubSeq(s, i + 1, Len(s)), c)

Split(s, c) == SplitAt(s, c, Find(s, c))

\* str.split(c, 1): split at the first occurrence of c only
SplitOnceAt(s, i) ==
    IF i = 0 THEN <<s>>
    ELSE <<SubSeq(s, 1, i - 1), SubSeq(s, i + 1, Len(s))>>

SplitOnce(s, c) == SplitOnceAt(s, Find(s, c))

\* re.sub(r"\([^)]*\)", "", s): every leftmost "(" that has a ")" after it is
\* removed together with everything up to the first such ")"
RECURSIVE ReSubParens(_)
ReSubAt(s, i, j) ==
    IF i = 0 \/ j = 0 THEN s
    ELSE SubSeq(s, 1, i - 1) \o ReSubParens(SubSeq(s, i + j + 1, Len(s)))

ReSubOpen(s, i) == ReSubAt(s, i, Find(SubSeq(s, i + 1, Len(s)), ")"))

ReSubParens(s) == ReSubOpen(s, Find(s, "("))

(***************************************************************************)
(* datetime.strptime(s, "%d%b%Y"), datetime.weekday() and                  *)
(* datetime.strftime("%d%b%Y").                                            *)
(***************************************************************************)
Digits == <<"0", "1", "2", "3", "4", "5", "6", "7", "8", "9">>

IsDigit(c) == \E i \in 1..10 : Digits[i] = c

DigitVal(c) == (CHOOSE i \in 1..10 : Digits[i] = c) - 1

UpperCase == <<"A", "B", "C", "D", "E", "F", "G", "H", "I", "J", "K", "L", "M",
               "N", "O", "P", "Q", "R", "S", "T", "U", "V", "W", "X", "Y", "Z">>

LowerCase == <<"a", "b", "c", "d", "e", "f", "g", "h", "i", "j", "k", "l", "m",
               "n", "o", "p", "q", "r", "s", "t", "u", "v", "w", "x", "y", "z">>

\* the pattern is compiled with re.IGNORECASE
Lower(c) ==
    IF \E i \in 1..26 : UpperCase[i] = c
    THEN LowerCase[CHOOSE i \in 1..26 : UpperCase[i] = c]
    ELSE c

\* %b: the month abbreviations of the C locale, as strptime prints them
MonthAbbr == << <<"J", "a", "n">>, <<"F", "e", "b">>, <<"M", "a", "r">>,
                <<"A", "p", "r">>, <<"M", "a", "y">>, <<"J", "u", "n">>,
                <<"J", "u", "l">>, <<"A", "u", "g">>, <<"S", "e", "p">>,
                <<"O", "c", "t">>, <<"N", "o", "v">>, <<"D", "e", "c">> >>

LowerStr(s) == [i \in 1..Len(s) |-> Lower(s[i])]

\* month number of a lower-case three-letter text, 0 when it is no month
MonthOfLower(t) ==
    IF \E m \in 1..12 : LowerStr(MonthAbbr[m]) = t
    THEN CHOOSE m \in 1..12 : LowerStr(MonthAbbr[m]) = t
    ELSE 0

MonthOf(t) == MonthOfLower(LowerStr(t))

IsLeap(y) == y % 4 = 0 /\ (y % 100 # 0 \/ y % 400 = 0)

DaysInMonth(y, m) ==
    IF m = 2 THEN (IF IsLeap(y) THEN 29 ELSE 28)
    ELSE IF m \in {4, 6, 9, 11} THEN 30 ELSE 31

\* %d: 3[0-1] | [1-2]\d | 0[1-9] | [1-9]; number of characters it takes, 0 = none
DayWidth(s) ==
    IF Len(s) >= 2
       /\ \/ s[1] = "3" /\ s[2] \in {"0", "1"}
          \/ s[1] \in {"1", "2"} /\ IsDigit(s[2])
          \/ s[1] = "0" /\ IsDigit(s[2]) /\ s[2] # "0"
    THEN 2
    ELSE IF Len(s) >= 1 /\ IsDigit(s[1]) /\ s[1] # "0" THEN 1 ELSE 0

AllDigits(s) == \A i \in 1..Len(s) : IsDigit(s[i])

\* int() of a text of digits
RECURSIVE Number(_)
Number(s) ==
    IF s = <<>> THEN 0
    ELSE 10 * Number(SubSeq(s, 1, Len(s) - 1)) + DigitVal(s[Len(s)])

NoDate == [ok |-> FALSE]

\* datetime(y, m, d): the three must form a date of the proleptic Gregorian
\* calendar, years 1..9999
DateOf(y, m, d) ==
    IF m = 0 \/ y < 1 \/ d < 1 \/ d > DaysInMonth(y, m) THEN NoDate
    ELSE [ok |-> TRUE, date |-> [year |-> y, month |-> m, day |-> d]]

\* the text after a day of w characters must be a month abbreviation and a
\* four-digit year, and nothing else
StrptimeAt(s, w) ==
    IF w = 0 \/ Len(s) # w + 7 \/ ~AllDigits(SubSeq(s, w + 4, w + 7)) THEN NoDate
    ELSE DateOf(Number(SubSeq(s, w + 4, w + 7)),
                MonthOf(SubSeq(s, w + 1, w + 3)),
                Number(SubSeq(s, 1, w)))

\* datetime.strptime(s, "%d%b%Y")
Strptime(s) == StrptimeAt(s, DayWidth(s))

RECURSIVE DaysBeforeMonth(_, _)
DaysBeforeMonth(y, m) ==
    IF m = 1 THEN 0 ELSE DaysBeforeMonth(y, m - 1) + DaysInMonth(y, m - 1)

\* date.toordinal(): 1 for 1 Jan of year 1
ToOrdinal(date) ==
    LET y == date.year - 1
    IN  y * 365 + (y \div 4) - (y \div 100) + (y \div 400)
        + DaysBeforeMonth(date.year, date.month) + date.day

\* date.weekday(): 0 = Monday ... 6 = Sunday
Weekday(date) == (ToOrdinal(date) + 6) % 7

RECURSIVE DecimalStr(_)
DecimalStr(n) ==
    IF n < 10 THEN <<Digits[n + 1]>>
    ELSE DecimalStr(n \div 10) \o <<Digits[(n % 10) + 1]>>

\* strftime("%d%b%Y"): zero-padded day, month abbreviation, year as printed
\* by the C library (no padding)
Strftime(date) ==
    <<Digits[(date.day \div 10) + 1], Digits[(date.day % 10) + 1]>>
    \o MonthAbbr[date.month] \o DecimalStr(date.year)

(***************************************************************************)
(* models.py: CustomerType, DayType, Hotel.                                *)
(***************************************************************************)
RegularStr == <<"R", "e", "g", "u", "l", "a", "r">>

RewardsStr == <<"R", "e", "w", "a", "r", "d", "s">>

\* CustomerType that matches the value without regard to case
CustomerType_IgnoreCase(s) ==
    IF LowerStr(s) = LowerStr(RegularStr) THEN [ok |-> TRUE, member |-> "REGULAR"]
    ELSE IF LowerStr(s) = LowerStr(RewardsStr)
    THEN [ok |-> TRUE, member |-> "REWARDS"]
    ELSE [ok |-> FALSE]

\* CustomerType(value): lookup of an Enum member by its value
CustomerType(s) ==
    IF s = RegularStr THEN [ok |-> TRUE, member |-> "REGULAR"]
    ELSE IF s = RewardsStr THEN [ok |-> TRUE, member |-> "REWARDS"]
    ELSE [ok |-> FALSE]

CustomerTypeValue(member) == IF member = "REGULAR" THEN RegularStr ELSE RewardsStr

DayTypeValue(member) == IF member = "WEEKDAY" THEN "weekday" ELSE "weekend"

Hotel(name, rating, wd_reg, wd_rew, we_reg, we_rew) ==
    [name |-> name, rating |-> rating,
     weekday_regular |-> wd_reg, weekday_rewards |-> wd_rew,
     weekend_regular |-> we_reg, weekend_rewards |-> we_rew]

\* get_rate that ignores the day type of a rewards customer
get_rate_RewardsWeekdayOnly(hotel, customer_type, day_type) ==
    IF customer_type = "REGULAR"
    THEN (IF day_type = "WEEKDAY" THEN hotel.weekday_regular
          ELSE hotel.weekend_regular)
    ELSE hotel.weekday_rewards

get_rate(hotel, customer_type, day_type) ==
    IF customer_type = "REGULAR"
    THEN (IF day_type = "WEEKDAY" THEN hotel.weekday_regular
          ELSE hotel.weekend_regular)
    ELSE (IF day_type = "WEEKDAY" THEN hotel.weekday_rewards
          ELSE hotel.weekend_rewards)

(***************************************************************************)
(* system.py: HotelReservationSystem.                                      *)
(***************************************************************************)
\* a system constructed without hotels
InitialHotels_Empty == <<>>

\* __init__: the Miami hotels
InitialHotels ==
    << Hotel("Lakewood", 3, 110, 80, 90, 80),
       Hotel("Bridgewood", 4, 160, 110, 60, 50),
       Hotel("Ridgewood", 5, 220, 100, 150, 40) >>

\* the ValueError parse_input re-raises from its except clause:
\* "Failed to parse input '<input>': <text>[: <detail>]..."
ValueError(input_str, text, detail) ==
    [raised |-> TRUE, type |-> "ValueError",
     input |-> input_str, text |-> text, detail |-> detail]

MapStrip(ss) == [i \in 1..Len(ss) |-> Strip(ss[i])]

\* clean_date without the removal of the parenthesised text
CleanDate_KeepsParens(date_str) == Strip(date_str)

\* clean_date of one entry
CleanDate(date_str) == Strip(ReSubParens(date_str))

RECURSIVE ParseDates(_, _)
\* TryDate that reports the cleaned text instead of the entry as written
TryDate_ReportsClean(date_strings, dates, date_str, date_obj) ==
    IF date_obj.ok
    THEN ParseDates(Tail(date_strings), Append(dates, date_obj.date))
    ELSE [raised |-> TRUE, date_str |-> CleanDate(date_str)]

\* try / except around strptime: the date is appended, or the entry is
\* reported as it was written
TryDate(date_strings, dates, date_str, date_obj) ==
    IF date_obj.ok
    THEN ParseDates(Tail(date_strings), Append(dates, date_obj.date))
    ELSE [raised |-> TRUE, date_str |-> date_str]

\* the loop over date_strings: the first entry that does not parse raises
ParseDates(date_strings, dates) ==
    IF date_strings = <<>> THEN [raised |-> FALSE, dates |-> dates]
    ELSE TryDate(date_strings, dates, Head(date_strings),
                 Strptime(CleanDate(Head(date_strings))))

\* ParsedDates that returns each date once, at its first position
ParsedDates_Unique(input_str, customer_type, loop) ==
    IF loop.raised
    THEN ValueError(input_str, "Invalid date format", loop.date_str)
    ELSE IF loop.dates = <<>>
    THEN ValueError(input_str, "At least one date must be provided", <<>>)
    ELSE [raised |-> FALSE, customer_type |-> customer_type,
          dates |->
            LET ds == loop.dates
                first == {i \in 1..Len(ds) : \A j \in 1..(i - 1) : ds[j] # ds[i]}
            IN  [k \in 1..Cardinality(first) |->
                   ds[CHOOSE i \in first :
                        Cardinality({j \in first : j < i}) = k - 1]]]

\* after the loop: "if not dates", return
ParsedDates(input_str, customer_type, loop) ==
    IF loop.raised
    THEN ValueError(input_str, "Invalid date format", loop.date_str)
    ELSE IF loop.dates = <<>>
    THEN ValueError(input_str, "At least one date must be provided", <<>>)
    ELSE [raised |-> FALSE, customer_type |-> customer_type,
          dates |-> loop.dates]

\* customer type, then the dates
ParsedCustomer(input_str, customer_str, dates_str, customer_type) ==
    IF ~customer_type.ok
    THEN ValueError(input_str, "Invalid customer type", customer_str)
    ELSE ParsedDates(input_str, customer_type.member,
                     ParseDates(MapStrip(Split(dates_str, ",")), <<>>))

\* the separator, then customer_str, dates_str = parts
ParsedParts(input_str, parts) ==
    IF Len(parts) # 2
    THEN ValueError(input_str, "Input must contain ':' separator", <<>>)
    ELSE ParsedCustomer(input_str, parts[1], parts[2], CustomerType(parts[1]))

parse_input(input_str) == ParsedParts(input_str, MapStrip(SplitOnce(input_str, ":")))

\* get_day_type that takes Sunday alone for the weekend
get_day_type_SundayOnly(date) == IF Weekday(date) >= 6 THEN "WEEKEND" ELSE "WEEKDAY"

get_day_type(date) == IF Weekday(date) >= 5 THEN "WEEKEND" ELSE "WEEKDAY"

RECURSIVE calculate_total_cost(_, _, _)
calculate_total_cost(hotel, customer_type, dates) ==
    IF dates = <<>> THEN 0
    ELSE calculate_total_cost(hotel, customer_type,
                              SubSeq(dates, 1, Len(dates) - 1))
         + get_rate(hotel, customer_type, get_day_type(dates[Len(dates)]))

\* KeyLess with the rating compared the wrong way round
KeyLess_RatingAscending(a, b) == a[1] < b[1] \/ (a[1] = b[1] /\ a[2] > b[2])

\* comparison of the sort keys, the tuples (cost, -rating)
KeyLess(a, b) == a[1] < b[1] \/ (a[1] = b[1] /\ a[2] < b[2])

RECURSIVE InsertByKey(_, _)
\* InsertByKey that places e before the elements of equal key: a sort that
\* is not stable
InsertByKey_BeforeEquals(e, s) ==
    IF s = <<>> THEN <<e>>
    ELSE IF ~KeyLess(Head(s).key, e.key) THEN <<e>> \o s
    ELSE <<Head(s)>> \o InsertByKey(e, Tail(s))

\* place e, which followed every element of s in the list, behind the
\* elements whose key is not greater: list.sort is stable
InsertByKey(e, s) ==
    IF s = <<>> THEN <<e>>
    ELSE IF KeyLess(e.key, Head(s).key) THEN <<e>> \o s
    ELSE <<Head(s)>> \o InsertByKey(e, Tail(s))

\* list.sort(key = ...) over a list of [key, item]
RECURSIVE SortByKey(_)
SortByKey(s) ==
    IF s = <<>> THEN <<>>
    ELSE InsertByKey(s[Len(s)], SortByKey(SubSeq(s, 1, Len(s) - 1)))

Items(s) == [i \in 1..Len(s) |-> s[i].item]

IndexError == [raised |-> TRUE, type |-> "IndexError"]

\* hotel_costs: the (hotel, total_cost) pairs in catalog order
HotelCosts(hs, customer_type, dates) ==
    [i \in 1..Len(hs) |->
       <<hs[i], calculate_total_cost(hs[i], customer_type, dates)>>]

\* hotel_costs.sort(key=lambda x: (x[1], -x[0].rating))
SortHotelCosts(hotel_costs) ==
    Items(SortByKey([i \in 1..Len(hotel_costs) |->
                       [key |-> <<hotel_costs[i][2], -hotel_costs[i][1].rating>>,
                        item |-> hotel_costs[i]]]))

\* hotel_costs[0][0].name, after n calls of calculate_total_cost
CheapestName(hotel_costs, n) ==
    IF hotel_costs = <<>> THEN [ret |-> IndexError, cost_calls |-> n]
    ELSE [ret |-> [raised |-> FALSE, value |-> hotel_costs[1][1].name],
          cost_calls |-> n]

\* SelectCheapest that answers a failed parse with the first catalog hotel
SelectCheapest_DefaultOnError(hs, parsed) ==
    IF parsed.raised
    THEN [ret |-> [raised |-> FALSE, value |-> hs[1].name], cost_calls |-> 0]
    ELSE CheapestName(
           SortHotelCosts(HotelCosts(hs, parsed.customer_type, parsed.dates)),
           Len(hs))

\* find_cheapest_hotel after its call of parse_input
SelectCheapest(hs, parsed) ==
    IF parsed.raised THEN [ret |-> parsed, cost_calls |-> 0]
    ELSE CheapestName(
           SortHotelCosts(HotelCosts(hs, parsed.customer_type, parsed.dates)),
           Len(hs))

\* result and number of calculate_total_cost calls of one find_cheapest_hotel
find_cheapest_hotel(hs, input_str) == SelectCheapest(hs, parse_input(input_str))

\* DailyCost that enters the weekday rate for every day
DailyCost_WeekdayRate(hotel, customer_type, date, day_type) ==
    [date |-> Strftime(date),
     day_type |-> DayTypeValue(day_type),
     rate |-> get_rate(hotel, customer_type, "WEEKDAY")]

\* one daily_costs entry
DailyCost(hotel, customer_type, date, day_type) ==
    [date |-> Strftime(date),
     day_type |-> DayTypeValue(day_type),
     rate |-> get_rate(hotel, customer_type, day_type)]

\* the daily_costs entries of one hotel
DailyCosts(hotel, customer_type, dates) ==
    [i \in 1..Len(dates) |->
       DailyCost(hotel, customer_type, dates[i], get_day_type(dates[i]))]

\* analysis["hotels"] in catalog order
HotelEntries(hs, customer_type, dates) ==
    [i \in 1..Len(hs) |->
       [name |-> hs[i].name,
        rating |-> hs[i].rating,
        total_cost |-> calculate_total_cost(hs[i], customer_type, dates),
        daily_costs |-> DailyCosts(hs[i], customer_type, dates)]]

\* SortHotelEntries on the total cost alone
SortHotelEntries_ByCostOnly(entries) ==
    Items(SortByKey([i \in 1..Len(entries) |->
                       [key |-> <<entries[i].total_cost, 0>>,
                        item |-> entries[i]]]))

\* analysis["hotels"].sort(key=lambda x: (x["total_cost"], -x["rating"]))
SortHotelEntries(entries) ==
    Items(SortByKey([i \in 1..Len(entries) |->
                       [key |-> <<entries[i].total_cost, -entries[i].rating>>,
                        item |-> entries[i]]]))

\* the analysis dictionary, after n calls of calculate_total_cost
Analysis(customer_type, dates, sorted, n) ==
    IF sorted = <<>> THEN [ret |-> IndexError, cost_calls |-> n]
    ELSE [ret |-> [raised |-> FALSE,
                   value |-> [customer_type |-> CustomerTypeValue(customer_type),
                              dates |-> [i \in 1..Len(dates) |->
                                           Strftime(dates[i])],
                              hotels |-> sorted,
                              cheapest_hotel |-> sorted[1].name]],
          cost_calls |-> n]

\* get_detailed_analysis after its call of parse_input
Analyse(hs, parsed) ==
    IF parsed.raised THEN [ret |-> parsed, cost_calls |-> 0]
    ELSE Analysis(parsed.customer_type, parsed.dates,
                  SortHotelEntries(
                    HotelEntries(hs, parsed.customer_type, parsed.dates)),
                  Len(hs))

\* result and number of calculate_total_cost calls of one get_detailed_analysis
get_detailed_analysis(hs, input_str) == Analyse(hs, parse_input(input_str))

\* the catalog reordered as the listing of a successful analysis
HotelsAfter_SortedInPlace(o, hs, r) ==
    IF o = "get_detailed_analysis" /\ ~r.raised
    THEN [i \in 1..Len(hs) |->
            CHOOSE h \in {hs[j] : j \in 1..Len(hs)} :
                h.name = r.value.hotels[i].name]
    ELSE hs

\* self.hotels after operation o returned r: the operations read self.hotels,
\* and the two sorts act on hotel_costs and analysis["hotels"], lists built
\* inside the call
HotelsAfter(o, hs, r) == hs

(***************************************************************************)
(* Inputs of the calls: request strings assembled from a head (tier segment *)
(* and separator) and a list of date entries, and arguments of the direct   *)
(* calls of get_day_type and calculate_total_cost.                          *)
(***************************************************************************)
SeqsUpTo(S, n) == UNION {[1..k -> S] : k \in 0..n}

RECURSIVE Join(_, _)
Join(ss, sep) ==
    IF ss = <<>> THEN <<>>
    ELSE IF Len(ss) = 1 THEN ss[1]
    ELSE ss[1] \o sep \o Join(Tail(ss), sep)

\* "<head><entry>, <entry>, ..."
Request(head, entries) == head \o Join(entries, <<",", " ">>)

Paren(a) == <<"(">> \o a \o <<")">>

Mar2009 == <<"M", "a", "r", "2", "0", "0", "9">>

Mon16 == <<"1", "6">> \o Mar2009
Tue17 == <<"1", "7">> \o Mar2009
Wed18 == <<"1", "8">> \o Mar2009
Fri20 == <<"2", "0">> \o Mar2009
Sat21 == <<"2", "1">> \o Mar2009
Sun22 == <<"2", "2">> \o Mar2009
Thu26 == <<"2", "6">> \o Mar2009
Fri27 == <<"2", "7">> \o Mar2009
Sat28 == <<"2", "8">> \o Mar2009

mon == <<"m", "o", "n">>
tues == <<"t", "u", "e", "s">>
wed == <<"w", "e", "d">>
thur == <<"t", "h", "u", "r">>
fri == <<"f", "r", "i">>
sat == <<"s", "a", "t">>
sun == <<"s", "u", "n">>

\* entries of the grammar DDMmmYYYY ["(" anything ")"]
GrammarEntries ==
    { Mon16,                              \* "16Mar2009"
      Fri20 \o Paren(fri),                \* "20Mar2009(fri)"
      Sat21 \o Paren(sat),                \* "21Mar2009(sat)"
      Sun22 \o Paren(mon) }               \* "22Mar2009(mon)", a Sunday

\* entries outside the grammar
OtherEntries ==
    { <<"1">> \o Mar2009,                  \* "1Mar2009"
      Paren(mon) \o Mon16,                \* "(mon)16Mar2009"
      <<"1", "6">> \o Paren(<<"x">>) \o Mar2009, \* "16(x)Mar2009"
      Mon16 \o Paren(mon) \o Paren(<<"x">>), \* "16Mar2009(mon)(x)"
      Mon16 \o Paren(mon) \o <<"x">>,     \* "16Mar2009(mon)x"
      Mon16 \o <<"(">> \o mon,            \* "16Mar2009(mon"
      <<>>,                               \* "" between two commas
      <<"2", "0", "0", "9", "-", "0", "3", "-", "1", "6">>,
      <<"3", "2">> \o Mar2009,                 \* "32Mar2009"
      <<"2", "9", "F", "e", "b", "2", "0", "0", "9">>,
      <<"1", "6", "m", "a", "r", "2", "0", "0", "9">> }

EntryTexts == GrammarEntries \cup OtherEntries

ValidHeads == { RegularStr \o <<":", " ">>,           \* "Regular: "
                RewardsStr \o <<":", " ">> }          \* "Rewards: "

OtherHeads ==
    { <<" ">> \o RegularStr \o <<" ", ":">>,          \* " Regular :"
      <<"r", "e", "g", "u", "l", "a", "r">> \o <<":", " ">>,    \* "regular: "
      <<"P", "r", "e", "m", "i", "u", "m">> \o <<":", " ">>,    \* "Premium: "
      <<":", " ">>,                                   \* ": "
      RegularStr \o <<" ">>,                          \* "Regular " (no colon)
      <<"P", "r", "e", "m", "i", "u", "m">> \o <<" ">> }        \* "Premium " (no colon)

\* date segments behind a head that is rejected: dates, no date, no entry
OtherHeadEntries ==
    { Mon16, Sat21 \o Paren(sat), <<>>,
      <<"2", "0", "0", "9", "-", "0", "3", "-", "1", "6">> }

GeneratedRequests ==
    { Request(h, es) : h \in ValidHeads, es \in SeqsUpTo(EntryTexts, MaxDates) }
    \cup
    { Request(h, es) :
        h \in OtherHeads, es \in SeqsUpTo(OtherHeadEntries, MaxDates) }

\* the requests of tests/test_hotel_reservation.py
RefWeekdays ==      \* "Regular: 16Mar2009(mon), 17Mar2009(tues), 18Mar2009(wed)"
    Request(RegularStr \o <<":", " ">>,
            <<Mon16 \o Paren(mon), Tue17 \o Paren(tues), Wed18 \o Paren(wed)>>)

RefWeekend ==       \* "Regular: 20Mar2009(fri), 21Mar2009(sat), 22Mar2009(sun)"
    Request(RegularStr \o <<":", " ">>,
            <<Fri20 \o Paren(fri), Sat21 \o Paren(sat), Sun22 \o Paren(sun)>>)

RefRewardsTie ==    \* "Rewards: 26Mar2009(thur), 27Mar2009(fri), 28Mar2009(sat)"
    Request(RewardsStr \o <<":", " ">>,
            <<Thu26 \o Paren(thur), Fri27 \o Paren(fri), Sat28 \o Paren(sat)>>)

RefSaturday ==      \* "Rewards: 21Mar2009(sat)"
    Request(RewardsStr \o <<":", " ">>, <<Sat21 \o Paren(sat)>>)

ReferenceRequests == {RefWeekdays, RefWeekend, RefRewardsTie, RefSaturday}

\* the entry k of a list followed by the annotation "(a)"
Annotate(ds, k, a) ==
    [i \in 1..Len(ds) |-> IF i = k THEN ds[i] \o Paren(a) ELSE ds[i]]

\* annotation texts: day names, right or wrong for the date, and other texts
AnnotationTexts ==
    { mon, sat, <<>>, <<"a", ":", "b">>, <<"(", "(", "a">>,
      <<"a", ",", "b">>, <<"x", ")", "y">> }

\* a request without annotations, and the same request with one entry annotated
AnnotationCases ==
    UNION { { [bare |-> Request(h, ds), ann |-> a,
               req |-> Request(h, Annotate(ds, k, a))] :
              k \in 1..Len(ds), a \in AnnotationTexts } :
            h \in ValidHeads,
            ds \in SeqsUpTo({Mon16, Sat21}, MaxDates) }

AnnotatedRequests == { c.req : c \in AnnotationCases }

Requests == GeneratedRequests \cup ReferenceRequests \cup AnnotatedRequests

Date(y, m, d) == [year |-> y, month |-> m, day |-> d]

\* Monday 16 March 2009 ... Sunday 22 March 2009
DateInputs == { Date(2009, 3, d) : d \in 16..22 }

CustomerTypes == {"REGULAR", "REWARDS"}

\* the hotel of tests/test_hotel_reservation.py TestHotel.setUp
TestHotel == Hotel("TestHotel", 4, 100, 80, 120, 90)

(***************************************************************************)
(* The state machine: a caller invokes one operation of the system at a    *)
(* time and drops the result before the next call.                         *)
(***************************************************************************)
None == [none |-> TRUE]

Callers == 1..MaxCallers

\* a caller that is not inside a call
IdleFrame == [at |-> "idle"]

Init ==
    /\ hotels = InitialHotels
    /\ pc = "idle"
    /\ op = "none"
    /\ arg = None
    /\ ret = None
    /\ cost_calls = 0
    /\ history = <<>>
    /\ frames = [c \in Callers |-> IdleFrame]

\* the call returns (or raises) to the caller
Returns(o, a, r) ==
    /\ op' = o
    /\ arg' = a
    /\ ret' = r.ret
    /\ cost_calls' = r.cost_calls
    /\ pc' = "returned"
    /\ hotels' = HotelsAfter(o, hotels, r.ret)
    /\ UNCHANGED <<history, frames>>

ParseInput(requests) ==
    /\ pc = "idle"
    /\ \E s \in requests :
         Returns("parse_input", s, [ret |-> parse_input(s), cost_calls |-> 0])

GetDayType ==
    /\ pc = "idle"
    /\ \E d \in DateInputs :
         Returns("get_day_type", d,
                 [ret |-> [raised |-> FALSE, value |-> get_day_type(d)],
                  cost_calls |-> 0])

CalculateTotalCost(hotelInputs, dateInputs) ==
    /\ pc = "idle"
    /\ \E h \in hotelInputs, c \in CustomerTypes,
          ds \in SeqsUpTo(dateInputs, MaxDates) :
         Returns("calculate_total_cost",
                 [hotel |-> h, customer_type |-> c, dates |-> ds],
                 [ret |-> [raised |-> FALSE,
                           value |-> calculate_total_cost(h, c, ds)],
                  cost_calls |-> 1])

FindCheapestHotel(requests) ==
    /\ pc = "idle"
    /\ \E s \in requests :
         Returns("find_cheapest_hotel", s, find_cheapest_hotel(hotels, s))

GetDetailedAnalysis(requests) ==
    /\ pc = "idle"
    /\ \E s \in requests :
         Returns("get_detailed_analysis", s, get_detailed_analysis(hotels, s))

\* the caller has used the result; it keeps the outcomes of its first `keep`
\* calls to compare later outcomes with
Return(keep) ==
    /\ pc = "returned"
    /\ pc' = "idle"
    /\ op' = "none"
    /\ arg' = None
    /\ ret' = None
    /\ cost_calls' = 0
    /\ history' = IF Len(history) < keep
                  THEN Append(history, [op |-> op, arg |-> arg, ret |-> ret])
                  ELSE history
    /\ UNCHANGED <<hotels, frames>>

Next ==
    \/ ParseInput(Requests)
    \/ GetDayType
    \/ CalculateTotalCost({hotels[i] : i \in 1..Len(hotels)} \cup {TestHotel},
                          DateInputs)
    \/ FindCheapestHotel(Requests)
    \/ GetDetailedAnalysis(Requests)
    \/ Return(0)

Spec == Init /\ [][Next]_vars

(***************************************************************************)
(* The same system with the catalog as an input: hotels is a public         *)
(* attribute, and tests replace it to exercise the selection.               *)
(***************************************************************************)
\* hotels that tie with Lakewood: on cost only, and on cost and rating
HotelPool ==
    { InitialHotels[1], InitialHotels[3],
      Hotel("Lakeview", 5, 110, 80, 90, 80),
      Hotel("Lakeside", 3, 110, 80, 90, 80) }

Catalogs == SeqsUpTo(HotelPool, MaxHotels) \ {<<>>}

CatalogRequests ==
    { Request(h, es) :
        h \in ValidHeads,
        es \in SeqsUpTo({Mon16, Sat21 \o Paren(sat), Mon16 \o <<"(">> \o mon},
                        MaxDates) }

InitCatalog ==
    /\ hotels \in Catalogs
    /\ pc = "idle"
    /\ op = "none"
    /\ arg = None
    /\ ret = None
    /\ cost_calls = 0
    /\ history = <<>>
    /\ frames = [c \in Callers |-> IdleFrame]

NextCatalog ==
    \/ ParseInput(CatalogRequests)
    \/ GetDayType
    \/ CalculateTotalCost({hotels[i] : i \in 1..Len(hotels)},
                          {Date(2009, 3, 16), Date(2009, 3, 21)})
    \/ FindCheapestHotel(CatalogRequests)
    \/ GetDetailedAnalysis(CatalogRequests)
    \/ Return(0)

SpecCatalog == InitCatalog /\ [][NextCatalog]_vars

(***************************************************************************)
(* A caller that makes one call after another on the same system and keeps *)
(* the outcomes of its first MaxCalls calls.                               *)
(***************************************************************************)
\* a hotel that ties with Lakewood on rating and on the rewards weekday rate
\* and undercuts it at the rewards weekend rate
Lakeshore == Hotel("Lakeshore", 3, 110, 80, 90, 70)

HistoryCatalogs == { InitialHotels, <<InitialHotels[1], Lakeshore>> }

HistoryRequests ==
    { RefRewardsTie,
      RefSaturday,
      Request(RewardsStr \o <<":", " ">>, <<Mon16>>),
      Request(RegularStr \o <<":", " ">>, <<Mon16 \o <<"(">> \o mon>>),
      Request(<<"V", "I", "P", ":", " ">>, <<Mon16>>) }

InitHistory ==
    /\ hotels \in HistoryCatalogs
    /\ pc = "idle"
    /\ op = "none"
    /\ arg = None
    /\ ret = None
    /\ cost_calls = 0
    /\ history = <<>>
    /\ frames = [c \in Callers |-> IdleFrame]

NextHistory ==
    \/ FindCheapestHotel(HistoryRequests)
    \/ GetDetailedAnalysis(HistoryRequests)
    \/ Return(MaxCalls)

SpecHistory == InitHistory /\ [][NextHistory]_vars

(***************************************************************************)
(* Callers whose calls of find_cheapest_hotel and get_detailed_analysis    *)
(* run on the same system with their steps interleaved.  A frame holds the *)
(* locals of one call: input_str, the parsed request, the position of the  *)
(* iterator over self.hotels, and hotel_costs or analysis["hotels"] in acc. *)
(* self.hotels is the one object the calls share; every iteration reads it. *)
(***************************************************************************)
ConcurrentRequests ==
    { RefWeekend,
      RefRewardsTie,
      Request(RegularStr \o <<":", " ">>, <<Mon16 \o <<"(">> \o mon>>) }

CallFrame(at, o, input_str, parsed, i, acc, r) ==
    [at |-> at, op |-> o, input_str |-> input_str, parsed |-> parsed,
     i |-> i, acc |-> acc, ret |-> r]

\* caller c moves to frame f; the callers of the other specifications rest
Enter(c, f) ==
    /\ frames' = [frames EXCEPT ![c] = f]
    /\ UNCHANGED <<pc, op, arg, ret, cost_calls, history>>

\* the call is made
Begin(c, requests) ==
    /\ frames[c].at = "idle"
    /\ \E o \in {"find_cheapest_hotel", "get_detailed_analysis"}, s \in requests :
          Enter(c, CallFrame("parse", o, s, None, 0, <<>>, None))
    /\ UNCHANGED hotels

\* the frame after parse_input: its exception ends the call, its result
\* starts the loop over self.hotels
AfterParse(f, parsed) ==
    IF parsed.raised
    THEN CallFrame("done", f.op, f.input_str, parsed, 0, <<>>, parsed)
    ELSE CallFrame("loop", f.op, f.input_str, parsed, 1, <<>>, None)

ParseStep(c) ==
    /\ frames[c].at = "parse"
    /\ Enter(c, AfterParse(frames[c], parse_input(frames[c].input_str)))
    /\ UNCHANGED hotels

\* what one iteration appends for a hotel: the pair of find_cheapest_hotel or
\* the entry of get_detailed_analysis
ItemOf(o, hotel, parsed) ==
    IF o = "find_cheapest_hotel"
    THEN HotelCosts(<<hotel>>, parsed.customer_type, parsed.dates)[1]
    ELSE HotelEntries(<<hotel>>, parsed.customer_type, parsed.dates)[1]

\* the frame after the iterator over self.hotels is asked for the next
\* hotel: the list is read at the iterator's position at that moment
AfterNext(f, hs) ==
    IF f.i <= Len(hs)
    THEN CallFrame("loop", f.op, f.input_str, f.parsed, f.i + 1,
                   Append(f.acc, ItemOf(f.op, hs[f.i], f.parsed)), None)
    ELSE CallFrame("sort", f.op, f.input_str, f.parsed, f.i, f.acc, None)

LoopStep(c) ==
    /\ frames[c].at = "loop"
    /\ Enter(c, AfterNext(frames[c], hotels))
    /\ UNCHANGED hotels

\* the sort of the call's own list and the value returned
ResultOfSort(f) ==
    IF f.op = "find_cheapest_hotel"
    THEN CheapestName(SortHotelCosts(f.acc), Len(f.acc)).ret
    ELSE Analysis(f.parsed.customer_type, f.parsed.dates,
                  SortHotelEntries(f.acc), Len(f.acc)).ret

SortStep(c) ==
    /\ frames[c].at = "sort"
    /\ Enter(c, CallFrame("done", frames[c].op, frames[c].input_str,
                          frames[c].parsed, frames[c].i, frames[c].acc,
                          ResultOfSort(frames[c])))
    /\ hotels' = HotelsAfter(frames[c].op, hotels, ResultOfSort(frames[c]))

\* the caller takes the result
ReturnStep(c) ==
    /\ frames[c].at = "done"
    /\ Enter(c, IdleFrame)
    /\ UNCHANGED hotels

NextConcurrent ==
    \/ \E c \in Callers : Begin(c, ConcurrentRequests)
    \/ \E c \in Callers : ParseStep(c)
    \/ \E c \in Callers : LoopStep(c)
    \/ \E c \in Callers : SortStep(c)
    \/ \E c \in Callers : ReturnStep(c)

SpecConcurrent == Init /\ [][NextConcurrent]_vars

(***************************************************************************)
(* Properties.                                                             *)
(***************************************************************************)
Returned(o) == pc = "returned" /\ op = o

\* the operations that take a request string
StringOps == {"parse_input", "find_cheapest_hotel", "get_detailed_analysis"}

\* total cost of every catalog hotel for a parsed request
CostsOf(parsed) ==
    [i \in 1..Len(hotels) |->
       calculate_total_cost(hotels[i], parsed.customer_type, parsed.dates)]

\* hotel i is first under (total cost ascending, rating descending,
\* catalog position ascending)
FirstInOrder(cost, i) ==
    \A j \in 1..Len(hotels) :
       /\ cost[i] <= cost[j]
       /\ cost[i] = cost[j] => hotels[i].rating >= hotels[j].rating
       /\ (cost[i] = cost[j] /\ hotels[i].rating = hotels[j].rating) => i <= j

\* C1: for every parsed request and every catalog, find_cheapest_hotel returns
\* the name of the hotel that is first under the order total cost ascending,
\* rating descending, catalog position ascending.
C1_CheapestIsFirstInOrder ==
    Returned("find_cheapest_hotel") =>
       LET parsed == parse_input(arg)
       IN  ~parsed.raised =>
             LET cost == CostsOf(parsed)
             IN  /\ ~ret.raised
                 /\ \E i \in 1..Len(hotels) :
                      FirstInOrder(cost, i) /\ ret.value = hotels[i].name

\* a call where three differently named hotels tie on cost, two of them on
\* rating too, and the winner is the earlier of the two best rated
C1_Witness ==
    /\ Returned("find_cheapest_hotel")
    /\ ~ret.raised
    /\ Len(hotels) = 3
    /\ hotels[1].name = "Lakewood"
    /\ hotels[2].name = "Lakeside"
    /\ hotels[3].name = "Lakeview"
    /\ LET cost == CostsOf(parse_input(arg))
       IN  cost[1] = cost[2] /\ cost[2] = cost[3]
    /\ ret.value = "Lakeview"


\* the total_cost listed for the hotel of a name in analysis["hotels"]
TotalOf(listed, name) ==
    listed[CHOOSE i \in 1..Len(listed) : listed[i].name = name].total_cost

C2_Catalog ==
    << Hotel("Lakewood", 3, 110, 80, 90, 80),
       Hotel("Bridgewood", 4, 160, 110, 60, 50),
       Hotel("Ridgewood", 5, 220, 100, 150, 40) >>

\* totals are listed for Lakewood, Bridgewood, Ridgewood
C2_Expected ==
    << [req |-> RefWeekdays,   totals |-> <<330, 480, 660>>, winner |-> "Lakewood"],
       [req |-> RefWeekend,    totals |-> <<290, 280, 520>>, winner |-> "Bridgewood"],
       [req |-> RefRewardsTie, totals |-> <<240, 270, 240>>, winner |-> "Ridgewood"],
       [req |-> RefSaturday,   totals |-> <<80, 50, 40>>,    winner |-> "Ridgewood"] >>

\* C2: with the fixed catalog the four reference requests give the stated
\* totals per hotel and the stated winners (Lakewood, Bridgewood, Ridgewood on
\* the rating tie-break, Ridgewood).
C2_ReferenceScenarios ==
    /\ hotels = C2_Catalog
    /\ \A k \in 1..4 :
         /\ (Returned("find_cheapest_hotel") /\ arg = C2_Expected[k].req) =>
               (~ret.raised /\ ret.value = C2_Expected[k].winner)
         /\ (Returned("get_detailed_analysis") /\ arg = C2_Expected[k].req) =>
               /\ ~ret.raised
               /\ ret.value.cheapest_hotel = C2_Expected[k].winner
               /\ \A i \in 1..3 :
                    TotalOf(ret.value.hotels, C2_Catalog[i].name)
                      = C2_Expected[k].totals[i]

\* the analysis of the rewards request in which Lakewood and Ridgewood tie
C2_Witness ==
    /\ Returned("get_detailed_analysis")
    /\ arg = RefRewardsTie
    /\ ~ret.raised
    /\ TotalOf(ret.value.hotels, "Lakewood") = 240
    /\ TotalOf(ret.value.hotels, "Ridgewood") = 240
    /\ ret.value.cheapest_hotel = "Ridgewood"

\* the request has a separator
HasColon(request) == \E i \in 1..Len(request) : request[i] = ":"

\* the text before the first colon and the text after it, trimmed
TierSegment(request) == Strip(SubSeq(request, 1, Find(request, ":") - 1))

DateSegment(request) ==
    Strip(SubSeq(request, Find(request, ":") + 1, Len(request)))

ValidTier(request) == TierSegment(request) \in {RegularStr, RewardsStr}

\* the date tokens as written: split on commas, trimmed
DateTokens(request) == MapStrip(Split(DateSegment(request), ","))

\* the call of a string operation on a request with separator and valid tier
DatesReached ==
    pc = "returned" /\ op \in StringOps /\ HasColon(arg) /\ ValidTier(arg)

\* text of the ValueError raised by the call, "" when there is none
ErrorText(r) == IF r.raised /\ r.type = "ValueError" THEN r.text ELSE ""

\* C3: a request with a valid tier whose date segment holds no date token
\* (it is empty, or only whitespace and commas) fails with "At least one date
\* must be provided".
C3_EmptyDateList ==
    (DatesReached /\ \A i \in 1..Len(DateTokens(arg)) : DateTokens(arg)[i] = <<>>)
       => ErrorText(ret) = "At least one date must be provided"

\* the rate stored for a (tier, day class) pair
StoredRate(hotel, customer_type, day_type) ==
    CASE customer_type = "REGULAR" /\ day_type = "WEEKDAY" -> hotel.weekday_regular
      [] customer_type = "REGULAR" /\ day_type = "WEEKEND" -> hotel.weekend_regular
      [] customer_type = "REWARDS" /\ day_type = "WEEKDAY" -> hotel.weekday_rewards
      [] customer_type = "REWARDS" /\ day_type = "WEEKEND" -> hotel.weekend_rewards

\* Saturday 21 and Sunday 22 March 2009
C4_WeekendDates == {Date(2009, 3, 21), Date(2009, 3, 22)}

\* number of entries of a date list that are in a set of dates
CountIn(dates, S) == Cardinality({i \in 1..Len(dates) : dates[i] \in S})

\* C4: calculate_total_cost is (number of weekday dates) x (weekday rate of
\* the tier) + (number of weekend dates) x (weekend rate of the tier), every
\* occurrence of a date counted, in any order.
C4_CostIsCountTimesRate ==
    Returned("calculate_total_cost") =>
       ret.value =
         CountIn(arg.dates, DateInputs \ C4_WeekendDates)
           * StoredRate(arg.hotel, arg.customer_type, "WEEKDAY")
         + CountIn(arg.dates, C4_WeekendDates)
           * StoredRate(arg.hotel, arg.customer_type, "WEEKEND")

\* a rewards stay of a Saturday and a Monday, in that order, in the test hotel
C4_Witness ==
    /\ Returned("calculate_total_cost")
    /\ arg.hotel = TestHotel
    /\ arg.customer_type = "REWARDS"
    /\ arg.dates = <<Date(2009, 3, 21), Date(2009, 3, 16)>>
    /\ ret.value = 90 + 80

CatalogNames == {hotels[i].name : i \in 1..Len(hotels)}

\* C5: when parse_input succeeds on a request, find_cheapest_hotel and
\* get_detailed_analysis complete without raising and the winning name is the
\* name of a catalog hotel.
C5_EvaluationNeverFails ==
    /\ (Returned("find_cheapest_hotel") /\ ~parse_input(arg).raised) =>
          (~ret.raised /\ ret.value \in CatalogNames)
    /\ (Returned("get_detailed_analysis") /\ ~parse_input(arg).raised) =>
          (~ret.raised /\ ret.value.cheapest_hotel \in CatalogNames)

\* "Regular: 16Mar2009", the single date of test_edge_case_single_date
C5_Witness ==
    /\ Returned("find_cheapest_hotel")
    /\ arg = Request(RegularStr \o <<":", " ">>, <<Mon16>>)
    /\ ~ret.raised
    /\ ret.value = "Lakewood"

\* outcome of a string operation on a request
ResultOf(o, request) ==
    CASE o = "parse_input" -> parse_input(request)
      [] o = "find_cheapest_hotel" -> find_cheapest_hotel(hotels, request).ret
      [] o = "get_detailed_analysis" -> get_detailed_analysis(hotels, request).ret

\* the annotation holds no comma and no closing parenthesis
PlainAnnotation(a) == \A i \in 1..Len(a) : a[i] \notin {",", ")"}

\* C6 as stated: every annotation text is ignored; a request gives the same
\* tier, dates, costs and winner with and without it.
C6_AnyAnnotationIgnored ==
    (pc = "returned" /\ op \in StringOps) =>
       \A c \in AnnotationCases :
          arg = c.req => ret = ResultOf(op, c.bare)

\* C6: an annotation text without comma and closing parenthesis is ignored; a
\* request gives the same tier, dates, costs and winner with and without it,
\* whatever weekday it names.
C6_PlainAnnotationIgnored ==
    (pc = "returned" /\ op \in StringOps) =>
       \A c \in AnnotationCases :
          (PlainAnnotation(c.ann) /\ arg = c.req) => ret = ResultOf(op, c.bare)

\* a Saturday annotated as Monday is priced as a Saturday
C6_Witness ==
    /\ Returned("find_cheapest_hotel")
    /\ arg = Request(RegularStr \o <<":", " ">>, <<Sat21 \o Paren(mon)>>)
    /\ ~ret.raised
    /\ ret.value = "Bridgewood"

\* C7: an invalid request is classified by the first failing check in the
\* order separator, tier, dates.
C7_ErrorOrder ==
    (pc = "returned" /\ op \in StringOps) =>
       /\ ~HasColon(arg) => ErrorText(ret) = "Input must contain ':' separator"
       /\ (HasColon(arg) /\ ~ValidTier(arg)) =>
             ErrorText(ret) = "Invalid customer type"
       /\ ErrorText(ret) \in {"Invalid date format",
                             "At least one date must be provided"} =>
             (HasColon(arg) /\ ValidTier(arg))

\* "regular: 2009-03-16": the tier is reported, not the date
C7_Witness ==
    /\ Returned("parse_input")
    /\ arg = Request(LowerStr(RegularStr) \o <<":", " ">>,
                     <<<<"2", "0", "0", "9", "-", "0", "3", "-", "1", "6">>>>)
    /\ ErrorText(ret) = "Invalid customer type"

TokenParses(token) == Strptime(Strip(ReSubParens(token))).ok

\* index of the leftmost token that does not parse, 0 when all parse
FirstOffending(tokens) ==
    IF \A i \in 1..Len(tokens) : TokenParses(tokens[i]) THEN 0
    ELSE CHOOSE i \in 1..Len(tokens) :
           /\ ~TokenParses(tokens[i])
           /\ \A j \in 1..(i - 1) : TokenParses(tokens[j])

\* C8: when a date token does not parse, the call fails with "Invalid date
\* format", the message carries the leftmost offending token as written, and
\* no dates are returned.
C8_FirstOffendingToken ==
    (DatesReached /\ FirstOffending(DateTokens(arg)) # 0) =>
       /\ ErrorText(ret) = "Invalid date format"
       /\ ret.detail = DateTokens(arg)[FirstOffending(DateTokens(arg))]
       /\ ret.input = arg
       /\ DOMAIN ret \cap {"dates", "customer_type", "value"} = {}

\* "Regular: 16Mar2009, 16Mar2009(mon)x": a date, then an entry whose
\* annotation is followed by text
C8_Witness ==
    /\ Returned("parse_input")
    /\ arg = Request(RegularStr \o <<":", " ">>,
                     <<Mon16, Mon16 \o Paren(mon) \o <<"x">>>>)
    /\ ErrorText(ret) = "Invalid date format"
    /\ ret.detail = Mon16 \o Paren(mon) \o <<"x">>

\* DateEntry = DDMmmYYYY ["(" anything ")"]: two digits, a month abbreviation,
\* four digits that form a calendar date, then at most one parenthesised text
InGrammar(token) ==
    /\ Len(token) >= 9
    /\ AllDigits(SubSeq(token, 1, 2))
    /\ AllDigits(SubSeq(token, 6, 9))
    /\ DateOf(Number(SubSeq(token, 6, 9)), MonthOf(SubSeq(token, 3, 5)),
              Number(SubSeq(token, 1, 2))).ok
    /\ \/ Len(token) = 9
       \/ /\ Len(token) >= 11
          /\ token[10] = "("
          /\ token[Len(token)] = ")"
          /\ \A i \in 11..(Len(token) - 1) : token[i] \notin {"(", ")"}

\* C9: parse_input accepts a date entry only if it matches the grammar; every
\* other entry is rejected with "Invalid date format".
C9_OnlyGrammarAccepted ==
    (DatesReached /\ \E i \in 1..Len(DateTokens(arg)) :
                        ~InGrammar(DateTokens(arg)[i]))
       => ErrorText(ret) = "Invalid date format"

\* C10: on an invalid request find_cheapest_hotel and get_detailed_analysis
\* raise one failure and return nothing, compute no cost, and leave the
\* catalog as it was.
C10_NoPartialResult ==
    [][ ( /\ pc = "idle"
          /\ op' \in {"find_cheapest_hotel", "get_detailed_analysis"}
          /\ parse_input(arg').raised )
        => /\ ret'.raised
           /\ ret'.type = "ValueError"
           /\ DOMAIN ret' \cap {"value", "customer_type", "dates", "hotels",
                                "cheapest_hotel"} = {}
           /\ cost_calls' = 0
           /\ hotels' = hotels ]_vars

\* a failed analysis: nothing but the date error came back
C10_Witness ==
    /\ Returned("get_detailed_analysis")
    /\ ErrorText(ret) = "Invalid date format"
    /\ cost_calls = 0
    /\ hotels = InitialHotels

\* the kept call i was the same operation on the same request as the call
\* that has just returned
SameCall(i) == history[i].op = op /\ history[i].arg = arg

\* C11: whatever calls of find_cheapest_hotel and get_detailed_analysis, valid
\* or failing, were made before on the same system, a call on a request
\* gives the outcome that the same call on that request gave before.
C11_Idempotent ==
    pc = "returned" =>
       \A i \in 1..Len(history) : SameCall(i) => history[i].ret = ret

\* the same call repeated after a call of the other operation on another
\* request; one repeated call that succeeds or one that fails
C11_Witness ==
    /\ pc = "returned"
    /\ Len(history) = 2
    /\ SameCall(1)
    /\ history[2].op # op
    /\ history[2].arg # arg
    /\ history[1].ret = ret
    /\ ret.raised # history[2].ret.raised

\* C12: after any sequence of parse_input, get_day_type, calculate_total_cost,
\* find_cheapest_hotel and get_detailed_analysis calls the hotels list holds
\* Lakewood, Bridgewood, Ridgewood in this order with the ratings and the four
\* rates of the construction.
C12_CatalogNeverMutated == hotels = C2_Catalog

\* an analysis whose listing starts with Bridgewood, while the catalog still
\* starts with Lakewood
C12_Witness ==
    /\ Returned("get_detailed_analysis")
    /\ ~ret.raised
    /\ ret.value.hotels[1].name = "Bridgewood"
    /\ hotels[1].name = "Lakewood"

\* the date written in a token: day, month and year of its text outside the
\* parentheses
WrittenDate(token) == Strptime(Strip(ReSubParens(token))).date

\* C13: when parse_input succeeds it returns exactly one date per
\* comma-separated entry, the i-th date being the date written in the i-th
\* entry; repeated entries give repeated dates.
C13_OrderAndDuplicatesKept ==
    (Returned("parse_input") /\ ~ret.raised) =>
       LET tokens == DateTokens(arg)
       IN  /\ Len(ret.dates) = Len(tokens)
           /\ \A i \in 1..Len(tokens) : ret.dates[i] = WrittenDate(tokens[i])

\* "Regular: 21Mar2009(sat), 21Mar2009(sat)" and the like: the same date
\* written twice
C13_Witness ==
    /\ Returned("parse_input")
    /\ ~ret.raised
    /\ Len(ret.dates) >= 2
    /\ DateTokens(arg)[1] = DateTokens(arg)[2]
    /\ ret.dates[1] = Date(2009, 3, 21)
    /\ ret.dates[2] = Date(2009, 3, 21)

\* catalog hotel i comes before catalog hotel j: lower total cost, then higher
\* rating, then earlier catalog position
ListedBefore(cost, i, j) ==
    \/ cost[i] < cost[j]
    \/ cost[i] = cost[j] /\ hotels[i].rating > hotels[j].rating
    \/ cost[i] = cost[j] /\ hotels[i].rating = hotels[j].rating /\ i < j

\* position of catalog hotel i in a listing in that order
PlaceOf(cost, i) ==
    1 + Cardinality({j \in 1..Len(hotels) : ListedBefore(cost, j, i)})

\* C14: the hotels list of get_detailed_analysis holds every catalog hotel
\* exactly once, in the order total cost ascending, then rating descending,
\* then catalog position.
C14_ListingIsSortedCatalog ==
    (Returned("get_detailed_analysis") /\ ~ret.raised) =>
       LET cost == CostsOf(parse_input(arg))
           listed == ret.value.hotels
       IN  /\ Len(listed) = Len(hotels)
           /\ \A i \in 1..Len(hotels) :
                 /\ listed[PlaceOf(cost, i)].name = hotels[i].name
                 /\ listed[PlaceOf(cost, i)].rating = hotels[i].rating
                 /\ listed[PlaceOf(cost, i)].total_cost = cost[i]

\* a catalog of three differently named hotels of equal cost, two of them of
\* equal rating and the best rated one not first: the listing is reordered
\* by rating and keeps the catalog order of the other two
C14_Witness ==
    /\ Returned("get_detailed_analysis")
    /\ ~ret.raised
    /\ Len(hotels) = 3
    /\ hotels[1].rating = hotels[3].rating
    /\ hotels[2].rating > hotels[1].rating
    /\ Cardinality(CatalogNames) = 3
    /\ \A i \in 1..3 : ret.value.hotels[i].total_cost = ret.value.hotels[1].total_cost
    /\ ret.value.hotels[1].name = hotels[2].name
    /\ ret.value.hotels[2].name = hotels[1].name
    /\ ret.value.hotels[3].name = hotels[3].name

\* the tier named in a request with a valid tier segment
TierOf(request) ==
    IF TierSegment(request) = RegularStr THEN "REGULAR" ELSE "REWARDS"

\* the Saturdays and Sundays of March 2009
C16_WeekendDays == {1, 7, 8, 14, 15, 21, 22, 28, 29}

\* day class of a date of March 2009, as get_detailed_analysis prints it
C16_DayClass(date) ==
    IF date.year = 2009 /\ date.month = 3
    THEN IF date.day \in C16_WeekendDays THEN "weekend" ELSE "weekday"
    ELSE "unknown"

\* the stored rate for a tier and a printed day class
C16_Rate(hotel, tier, class) ==
    StoredRate(hotel, tier, IF class = "weekend" THEN "WEEKEND" ELSE "WEEKDAY")

RECURSIVE SumOfRates(_)
SumOfRates(daily_costs) ==
    IF daily_costs = <<>> THEN 0
    ELSE daily_costs[1].rate + SumOfRates(Tail(daily_costs))

\* the catalog hotel of a name
HotelNamed(name) == CHOOSE h \in {hotels[i] : i \in 1..Len(hotels)} : h.name = name

\* the dates written in the date tokens of a request
WrittenDates(request) ==
    [i \in 1..Len(DateTokens(request)) |-> WrittenDate(DateTokens(request)[i])]

\* the daily_costs of one listed hotel hold one entry per requested date, in
\* order, with that date, its day class and the stored rate, and the total
\* is the sum of the rates
Itemised(entry, dates, tier) ==
    /\ Len(entry.daily_costs) = Len(dates)
    /\ \A i \in 1..Len(dates) :
          /\ Strptime(entry.daily_costs[i].date) = [ok |-> TRUE, date |-> dates[i]]
          /\ entry.daily_costs[i].day_type = C16_DayClass(dates[i])
          /\ entry.daily_costs[i].rate =
                C16_Rate(HotelNamed(entry.name), tier, C16_DayClass(dates[i]))
    /\ entry.total_cost = SumOfRates(entry.daily_costs)

\* C16: in a successful analysis every hotel's daily_costs has one entry per
\* requested date, in request order and with repeated dates repeated, each
\* carrying that date, its day class and the hotel's rate for the tier and
\* day class, and total_cost is the sum of the rate fields;
\* calculate_total_cost of no dates is 0.
C16_DailyCostsItemised ==
    /\ (Returned("get_detailed_analysis") /\ ~ret.raised) =>
          LET dates == WrittenDates(arg)
          IN  \A k \in 1..Len(ret.value.hotels) :
                 Itemised(ret.value.hotels[k], dates, TierOf(arg))
    /\ (Returned("calculate_total_cost") /\ arg.dates = <<>>) => ret.value = 0

\* a Rewards request that names a Saturday and then a Monday: the listed hotel
\* has the weekend entry first, two different rates and their sum as total
C16_Witness ==
    /\ Returned("get_detailed_analysis")
    /\ ~ret.raised
    /\ TierOf(arg) = "REWARDS"
    /\ Len(ret.value.hotels[1].daily_costs) = 2
    /\ ret.value.hotels[1].daily_costs[1].day_type = "weekend"
    /\ ret.value.hotels[1].daily_costs[2].day_type = "weekday"
    /\ ret.value.hotels[1].daily_costs[1].rate # ret.value.hotels[1].daily_costs[2].rate
    /\ ret.value.hotels[1].total_cost =
          ret.value.hotels[1].daily_costs[1].rate
          + ret.value.hotels[1].daily_costs[2].rate

\* C17: for every request string get_detailed_analysis fails exactly when
\* find_cheapest_hotel fails, with the same failure; when it succeeds its
\* cheapest_hotel is the name find_cheapest_hotel returns, and the total_cost
\* listed for each hotel is calculate_total_cost of that hotel on the parsed
\* request.
C17_EntryPointsAgree ==
    Returned("get_detailed_analysis") =>
       LET found == ResultOf("find_cheapest_hotel", arg)
           parsed == parse_input(arg)
       IN  /\ ret.raised = found.raised
           /\ ret.raised => ret = found
           /\ ~ret.raised =>
                 /\ ret.value.cheapest_hotel = found.value
                 /\ \A k \in 1..Len(ret.value.hotels) :
                       ret.value.hotels[k].total_cost =
                         calculate_total_cost(
                            HotelNamed(ret.value.hotels[k].name),
                            parsed.customer_type, parsed.dates)

\* an analysis in which the cheapest hotel is not alone at the lowest total
\* and is the one that find_cheapest_hotel names
C17_Witness ==
    /\ Returned("get_detailed_analysis")
    /\ ~ret.raised
    /\ ret.value.hotels[1].total_cost = ret.value.hotels[2].total_cost
    /\ ret.value.hotels[1].name # hotels[1].name
    /\ ret.value.cheapest_hotel = ResultOf("find_cheapest_hotel", arg).value

\* the outcome of a call made alone on the catalog of the construction
Alone(o, request) ==
    IF o = "find_cheapest_hotel"
    THEN find_cheapest_hotel(C2_Catalog, request).ret
    ELSE get_detailed_analysis(C2_Catalog, request).ret

\* C15: however the steps of the callers' find_cheapest_hotel and
\* get_detailed_analysis calls are interleaved, every finished call holds the
\* result the same call gives when it runs alone, and the catalog is the
\* catalog of the construction in every intermediate state.
C15_InterleavingIsSafe ==
    /\ hotels = C2_Catalog
    /\ \A c \in Callers :
          frames[c].at = "done" =>
             frames[c].ret = Alone(frames[c].op, frames[c].input_str)

\* caller 1 has finished an analysis that began and ended while caller 2
\* was inside its loop over the catalog on another request, one hotel taken
C15_Witness ==
    /\ frames[1].at = "done"
    /\ frames[1].op = "get_detailed_analysis"
    /\ ~frames[1].ret.raised
    /\ frames[1].ret.value.cheapest_hotel = "Bridgewood"
    /\ frames[2].at = "loop"
    /\ frames[2].op = "find_cheapest_hotel"
    /\ frames[2].input_str # frames[1].input_str
    /\ frames[2].i = 2

====
